---- MODULE Spec2Model ----
(***************************************************************************)
(* Quiz generation and quiz evaluation of the Gurukul learning platform:   *)
(* QuizEvaluator (src/quiz_evaluator.py) and QuizGenerator                 *)
(* (src/quiz_generator.py).                                                *)
(*                                                                         *)
(* Python values are records [t, n, s]: t is the type tag, n the number of *)
(* an int or bool, s the characters of a str.  Strings are sequences of    *)
(* one-character strings.  Python floats are modelled as exact rationals   *)
(* [num, den] with den > 0; the rounding of IEEE doubles is not modelled.  *)
(* A function that may raise returns a record whose exc field names the    *)
(* exception ("" when it returned normally).                               *)
(***************************************************************************)
EXTENDS Integers, Sequences, FiniteSets, TLC

\* ------------------------------------------------------------------------
\* Python values
\* ------------------------------------------------------------------------

Val(t, n, s) == [t |-> t, n |-> n, s |-> s]
None == Val("none", 0, <<>>)
\* a key that the dict does not hold
Absent == Val("absent", 0, <<>>)
PyInt(i) == Val("int", i, <<>>)
PyBool(b) == Val("bool", IF b THEN 1 ELSE 0, <<>>)
PyStr(s) == Val("str", 0, s)
\* a str that is only compared as a whole (a question type, an identifier):
\* its characters are kept as one token
Name(x) == PyStr(<<x>>)
\* a non-empty list such as [1]: unhashable, no .get, no .strip
PyList == Val("list", 0, <<>>)

IsNumber(v) == v.t \in {"int", "bool"}

\* dict.get(key, default)
Get(field, default) == IF field.t = "absent" THEN default ELSE field

\* bool(v): the truth value Python gives v
Truthy(v) ==
    CASE v.t = "none" -> FALSE
      [] v.t \in {"int", "bool"} -> v.n # 0
      [] v.t = "str" -> v.s # <<>>
      [] OTHER -> TRUE

\* a == b
PyEq(a, b) ==
    CASE IsNumber(a) /\ IsNumber(b) -> a.n = b.n
      [] a.t = "str" /\ b.t = "str" -> a.s = b.s
      [] a.t = "none" /\ b.t = "none" -> TRUE
      [] a.t = "list" /\ b.t = "list" -> TRUE
      [] OTHER -> FALSE

\* ------------------------------------------------------------------------
\* Characters and strings
\* ------------------------------------------------------------------------

LowerChars == <<"a", "b", "c", "d", "e", "f", "g", "h", "i", "j", "k", "l", "m",
                "n", "o", "p", "q", "r", "s", "t", "u", "v", "w", "x", "y", "z">>
UpperChars == <<"A", "B", "C", "D", "E", "F", "G", "H", "I", "J", "K", "L", "M",
                "N", "O", "P", "Q", "R", "S", "T", "U", "V", "W", "X", "Y", "Z">>
DigitChars == <<"0", "1", "2", "3", "4", "5", "6", "7", "8", "9">>

Range(f) == {f[i] : i \in DOMAIN f}
IsLower(c) == c \in Range(LowerChars)
IsUpper(c) == c \in Range(UpperChars)
IsDigit(c) == c \in Range(DigitChars)
IsSpace(c) == c \in {" ", "\n", "\t"}
\* \w of the re module
IsWordChar(c) == IsLower(c) \/ IsUpper(c) \/ IsDigit(c) \/ c = "_"

LowerChar(c) ==
    IF IsUpper(c)
    THEN LowerChars[CHOOSE i \in DOMAIN UpperChars : UpperChars[i] = c]
    ELSE c

\* str.lower()
Lower(s) == [i \in DOMAIN s |-> LowerChar(s[i])]

RECURSIVE LStrip(_)
LStrip(s) == IF s # <<>> /\ IsSpace(Head(s)) THEN LStrip(Tail(s)) ELSE s

RECURSIVE RStrip(_)
RStrip(s) ==
    IF s # <<>> /\ IsSpace(s[Len(s)]) THEN RStrip(SubSeq(s, 1, Len(s) - 1)) ELSE s

\* str.strip()
Strip(s) == RStrip(LStrip(s))

\* str(n) of a natural number
RECURSIVE NatStr(_)
NatStr(n) ==
    IF n < 10 THEN <<DigitChars[n + 1]>>
    ELSE NatStr(n \div 10) \o <<DigitChars[(n % 10) + 1]>>

IntStr(n) == IF n < 0 THEN <<"-">> \o NatStr(-n) ELSE NatStr(n)

\* str(v)
StrOf(v) ==
    CASE v.t = "str" -> v.s
      [] v.t = "int" -> IntStr(v.n)
      [] v.t = "bool" -> IF v.n = 1 THEN <<"T", "r", "u", "e">>
                         ELSE <<"F", "a", "l", "s", "e">>
      [] v.t = "none" -> <<"N", "o", "n", "e">>
      [] OTHER -> <<"[", "1", "]">>

\* ------------------------------------------------------------------------
\* Rationals standing for floats
\* ------------------------------------------------------------------------

Rat(n, d) == [num |-> n, den |-> d]
\* a > b
RatGt(a, b) == a.num * b.den > b.num * a.den
\* a >= b
RatGe(a, b) == a.num * b.den >= b.num * a.den

\* the least integer that is no smaller than r >= 0
Ceiling(r) == (r.num + r.den - 1) \div r.den

\* int(x) of a float: truncation toward zero
Trunc(r) ==
    IF r.num >= 0 THEN r.num \div r.den ELSE -((-r.num) \div r.den)

\* round(x, 2) in hundredths, ties to the even hundredth
Round2(r) ==
    LET a == IF r.num >= 0 THEN r.num ELSE -r.num
        q == (100 * a) \div r.den
        rem == 100 * a - q * r.den
        m == IF 2 * rem > r.den THEN q + 1
             ELSE IF 2 * rem < r.den THEN q
             ELSE IF q % 2 = 0 THEN q ELSE q + 1
    IN IF r.num >= 0 THEN m ELSE -m

\* ------------------------------------------------------------------------
\* difflib.SequenceMatcher(None, a, b).ratio() (strings shorter than 200
\* characters, where the autojunk heuristic is off)
\* ------------------------------------------------------------------------

RECURSIVE CommonPrefixLen(_, _)
CommonPrefixLen(a, b) ==
    IF a = <<>> \/ b = <<>> \/ Head(a) # Head(b) THEN 0
    ELSE IF Len(a) >= 16 /\ Len(b) >= 16 /\ SubSeq(a, 1, 16) = SubSeq(b, 1, 16)
    THEN 16 + CommonPrefixLen(SubSeq(a, 17, Len(a)), SubSeq(b, 17, Len(b)))
    ELSE 1 + CommonPrefixLen(Tail(a), Tail(b))

\* find_longest_match: the longest block a[i..i+k-1] = b[j..j+k-1]; of the
\* longest ones the one starting earliest in a, then earliest in b
FindLongestMatch(a, b) ==
    LET Run(i, j) == CommonPrefixLen(SubSeq(a, i, Len(a)), SubSeq(b, j, Len(b)))
        runs == [i \in 1..Len(a) |-> [j \in 1..Len(b) |-> Run(i, j)]]
        sizes == {runs[i][j] : i \in 1..Len(a), j \in 1..Len(b)}
        k == CHOOSE m \in sizes : \A n \in sizes : m >= n
        besti == CHOOSE i \in 1..Len(a) :
                    /\ \E j \in 1..Len(b) : runs[i][j] = k
                    /\ \A h \in 1..(i - 1) : \A j \in 1..Len(b) : runs[h][j] # k
        bestj == CHOOSE j \in 1..Len(b) :
                    /\ runs[besti][j] = k
                    /\ \A h \in 1..(j - 1) : runs[besti][h] # k
    IN IF a = <<>> \/ b = <<>> THEN [i |-> 1, j |-> 1, k |-> 0]
       ELSE [i |-> besti, j |-> bestj, k |-> k]

\* get_matching_blocks: the total size of the matching blocks, found by
\* recursion to the left and to the right of the longest match
RECURSIVE MatchingCount(_, _)
MatchingCount(a, b) ==
    IF a = <<>> \/ b = <<>> THEN 0
    ELSE LET m == FindLongestMatch(a, b)
         IN IF m.k = 0 THEN 0
            ELSE m.k
                 + MatchingCount(SubSeq(a, 1, m.i - 1), SubSeq(b, 1, m.j - 1))
                 + MatchingCount(SubSeq(a, m.i + m.k, Len(a)),
                                 SubSeq(b, m.j + m.k, Len(b)))

\* ratio(): 2.0 * matches / (len(a) + len(b)), 1.0 when both are empty
SimilarityRatio(a, b) ==
    IF Len(a) + Len(b) = 0 THEN Rat(1, 1)
    ELSE Rat(2 * MatchingCount(a, b), Len(a) + Len(b))

\* ------------------------------------------------------------------------
\* QuizEvaluator._extract_key_terms
\* ------------------------------------------------------------------------

common_words == {
    <<"t", "h", "e">>, <<"a">>, <<"a", "n">>, <<"a", "n", "d">>,
    <<"o", "r">>, <<"b", "u", "t">>, <<"i", "n">>, <<"o", "n">>,
    <<"a", "t">>, <<"t", "o">>, <<"f", "o", "r">>, <<"o", "f">>,
    <<"w", "i", "t", "h">>, <<"b", "y">>, <<"i", "s">>, <<"a", "r", "e">>,
    <<"w", "a", "s">>, <<"w", "e", "r", "e">>, <<"b", "e">>, <<"b", "e", "e", "n">>,
    <<"h", "a", "v", "e">>, <<"h", "a", "s">>, <<"h", "a", "d">>, <<"d", "o">>,
    <<"d", "o", "e", "s">>, <<"d", "i", "d">>, <<"w", "i", "l", "l">>,
    <<"w", "o", "u", "l", "d">>, <<"c", "o", "u", "l", "d">>,
    <<"s", "h", "o", "u", "l", "d">>}

\* the leading run of word characters of s
RECURSIVE WordPrefix(_)
WordPrefix(s) ==
    IF s = <<>> \/ ~IsWordChar(Head(s)) THEN <<>>
    ELSE <<Head(s)>> \o WordPrefix(Tail(s))

\* re.findall(r'\b\w+\b', s): the maximal runs of word characters, in order
RECURSIVE FindWords(_)
FindWords(s) ==
    IF s = <<>> THEN <<>>
    ELSE IF ~IsWordChar(Head(s)) THEN FindWords(Tail(s))
    ELSE LET w == WordPrefix(s)
         IN <<w>> \o FindWords(SubSeq(s, Len(w) + 1, Len(s)))

extract_key_terms(text) ==
    {w \in Range(FindWords(Lower(text))) : w \notin common_words /\ Len(w) > 2}

\* term in user_answer_clean: term is a substring of s
IsSubstring(term, s) ==
    \E i \in 1..(Len(s) - Len(term) + 1) : SubSeq(s, i, i + Len(term) - 1) = term

\* ------------------------------------------------------------------------
\* Numbers of Python values
\* ------------------------------------------------------------------------

\* the value of a string of decimal digits
RECURSIVE DigitsValue(_)
DigitsValue(s) ==
    IF s = <<>> THEN 0
    ELSE 10 * DigitsValue(SubSeq(s, 1, Len(s) - 1))
         + (CHOOSE d \in 0..9 : DigitChars[d + 1] = s[Len(s)])

\* int(v): [exc, n]
IntOf(v) ==
    CASE IsNumber(v) -> [exc |-> "", n |-> v.n]
      [] v.t = "str" ->
           LET s == Strip(v.s)
               neg == s # <<>> /\ Head(s) = "-"
               d == IF s # <<>> /\ Head(s) \in {"-", "+"} THEN Tail(s) ELSE s
           IN IF d # <<>> /\ \A i \in DOMAIN d : IsDigit(d[i])
              THEN [exc |-> "", n |-> IF neg THEN -DigitsValue(d) ELSE DigitsValue(d)]
              ELSE [exc |-> "ValueError", n |-> 0]
      [] OTHER -> [exc |-> "TypeError", n |-> 0]

\* ------------------------------------------------------------------------
\* Questions and question results
\* ------------------------------------------------------------------------

\* A question of a quiz document.  dict is FALSE for an entry of the
\* questions list that is no dict (None, a string, a number); question_id,
\* type, points, correct_answer and sample_answer are the values under these
\* keys, Absent when the key is missing.
\* question is the text of the prompt and options the texts of the options, each
\* a sequence of pieces whose concatenation is the Python string (<<>> when the
\* key is missing).
Question(id, type, points, correct, sample) ==
    [dict |-> TRUE, question_id |-> id, type |-> type, points |-> points,
     correct_answer |-> correct, sample_answer |-> sample,
     question |-> <<>>, options |-> <<>>]

\* an entry that is no dict; also the None a generation strategy returns
NotADict ==
    [dict |-> FALSE, question_id |-> Absent, type |-> Absent, points |-> Absent,
     correct_answer |-> Absent, sample_answer |-> Absent,
     question |-> <<>>, options |-> <<>>]

\* _generate_feedback
generate_feedback(is_correct) ==
    IF is_correct THEN "Excellent! Your answer is correct." ELSE "Not quite right."

\* The result dict of one question.  similarity_score is <<>> when the dict
\* has no such key and <<h>> for the score h/100; error is "" when the dict
\* has no error key; exc is "" unless the call raised.
QResult(id, type, ua, ca, ok, earned, max, sim, err) ==
    [exc |-> "", question_id |-> id, question_type |-> type, user_answer |-> ua,
     correct_answer |-> ca, is_correct |-> ok, points_earned |-> earned,
     max_points |-> max, similarity_score |-> sim, error |-> err,
     feedback |-> IF err # "" THEN "There was an error evaluating this question."
                  ELSE generate_feedback(ok)]

\* a call that raised exception e
Raised(e) ==
    [exc |-> e, question_id |-> None, question_type |-> "", user_answer |-> None,
     correct_answer |-> None, is_correct |-> FALSE, points_earned |-> None,
     max_points |-> None, similarity_score |-> <<>>, error |-> "", feedback |-> ""]

\* an error result that keeps the points of the question
generate_question_error_result_full(question_id, error_msg, max_points) ==
    QResult(question_id, "error", None, None, FALSE, max_points, max_points, <<>>,
            error_msg)

\* _generate_question_error_result
generate_question_error_result(question_id, error_msg, max_points) ==
    QResult(question_id, "error", None, None, FALSE, PyInt(0), max_points, <<>>,
            error_msg)

\* _evaluate_multiple_choice
evaluate_multiple_choice(question, user_answer, max_points) ==
    LET correct_answer == Get(question.correct_answer, PyInt(0))
        is_correct == PyEq(user_answer, correct_answer)
    IN QResult(Get(question.question_id, None), "multiple_choice", user_answer,
               correct_answer, is_correct,
               IF is_correct THEN max_points ELSE PyInt(0), max_points, <<>>, "")

\* true_false grading that awards ten points whatever the question is worth
evaluate_true_false_flat(question, user_answer, max_points) ==
    LET correct_answer == Get(question.correct_answer, PyBool(TRUE))
        is_correct == PyEq(user_answer, correct_answer)
    IN QResult(Get(question.question_id, None), "true_false", user_answer,
               correct_answer, is_correct,
               IF is_correct THEN PyInt(10) ELSE PyInt(0), max_points, <<>>, "")

\* _evaluate_true_false
evaluate_true_false(question, user_answer, max_points) ==
    LET correct_answer == Get(question.correct_answer, PyBool(TRUE))
        is_correct == PyEq(user_answer, correct_answer)
    IN QResult(Get(question.question_id, None), "true_false", user_answer,
               correct_answer, is_correct,
               IF is_correct THEN max_points ELSE PyInt(0), max_points, <<>>, "")

\* a threshold every pair of answers with a common character meets
similarity_threshold_low == Rat(1, 10)

\* self.similarity_threshold
similarity_threshold == Rat(7, 10)

\* str(user_answer).strip().lower() if user_answer else ""
CleanAnswer(user_answer) ==
    IF Truthy(user_answer) THEN Lower(Strip(StrOf(user_answer))) ELSE <<>>

\* _evaluate_fill_in_blank
evaluate_fill_in_blank(question, user_answer, max_points) ==
    LET raw == Get(question.correct_answer, PyStr(<<>>))
        correct_answer == Lower(Strip(raw.s))
        user_answer_clean == CleanAnswer(user_answer)
        is_exact_match == user_answer_clean = correct_answer
        similarity == SimilarityRatio(user_answer_clean, correct_answer)
        is_similar == RatGe(similarity, similarity_threshold)
        is_correct == is_exact_match \/ is_similar
        \* int(max_points), int(max_points * 0.8) or int(0)
        whole == IntOf(max_points)
        points_earned ==
            IF is_exact_match THEN whole
            ELSE IF is_similar
                 THEN IF IsNumber(max_points)
                      THEN [exc |-> "", n |-> Trunc(Rat(8 * max_points.n, 10))]
                      ELSE [exc |-> "TypeError", n |-> 0]
                 ELSE [exc |-> "", n |-> 0]
    IN IF raw.t # "str" THEN Raised("AttributeError")
       ELSE IF points_earned.exc # "" THEN Raised(points_earned.exc)
       ELSE QResult(Get(question.question_id, None), "fill_in_blank", user_answer,
                    Get(question.correct_answer, None), is_correct,
                    PyInt(points_earned.n), max_points, <<Round2(similarity)>>, "")

\* _evaluate_short_answer
evaluate_short_answer(question, user_answer, max_points) ==
    LET raw == Get(question.sample_answer, PyStr(<<>>))
        sample_answer == Lower(Strip(raw.s))
        user_answer_clean == CleanAnswer(user_answer)
        similarity == SimilarityRatio(user_answer_clean, sample_answer)
        key_terms == extract_key_terms(sample_answer)
        term_matches == Cardinality({term \in key_terms :
                                        IsSubstring(term, user_answer_clean)})
        term_score == IF key_terms # {} THEN Rat(term_matches, Cardinality(key_terms))
                      ELSE Rat(0, 1)
        \* similarity * 0.6 + term_score * 0.4
        combined_score ==
            Rat(6 * similarity.num * term_score.den + 4 * term_score.num * similarity.den,
                10 * similarity.den * term_score.den)
        is_correct == RatGe(combined_score, Rat(1, 2))
    IN IF raw.t # "str" THEN Raised("AttributeError")
       ELSE IF user_answer_clean = <<>>
       THEN QResult(Get(question.question_id, None), "short_answer", user_answer,
                    Get(question.sample_answer, None), FALSE, PyInt(0), max_points,
                    <<0>>, "")
       ELSE IF ~IsNumber(max_points) THEN Raised("TypeError")
       ELSE QResult(Get(question.question_id, None), "short_answer", user_answer,
                    Get(question.sample_answer, None), is_correct,
                    PyInt(Trunc(Rat(max_points.n * combined_score.num,
                                    combined_score.den))),
                    max_points, <<Round2(similarity)>>, "")

\* the except clause of _evaluate_single_question: a grader that raised
\* gives an error result worth 10 points
OrErrorResult(r, question_id) ==
    IF r.exc # "" THEN generate_question_error_result(question_id, r.exc, PyInt(10))
    ELSE r

\* the dispatch of _evaluate_single_question on the question's type
Dispatch(question, user_answer, kind, question_id, max_points) ==
    CASE kind = <<"multiple_choice">> ->
             evaluate_multiple_choice(question, user_answer, max_points)
      [] kind = <<"true_false">> ->
             evaluate_true_false(question, user_answer, max_points)
      [] kind = <<"fill_in_blank">> ->
             evaluate_fill_in_blank(question, user_answer, max_points)
      [] kind = <<"short_answer">> ->
             evaluate_short_answer(question, user_answer, max_points)
      [] OTHER ->
             generate_question_error_result(question_id, "Unknown question type",
                                            max_points)

\* _evaluate_single_question: the dispatch inside try/except.  The handler
\* itself reads question.get, so an entry that is no dict raises out of the
\* handler.
evaluate_single_question(question, user_answer) ==
    IF ~question.dict THEN Raised("AttributeError")
    ELSE
      LET question_type == Get(question.type, Name("multiple_choice"))
          question_id == Get(question.question_id, Name("unknown"))
          max_points == Get(question.points, PyInt(10))
          kind == IF question_type.t = "str" THEN question_type.s ELSE <<>>
      IN OrErrorResult(Dispatch(question, user_answer, kind, question_id, max_points),
                       question_id)

\* ------------------------------------------------------------------------
\* Quiz documents, submissions and evaluate_quiz_submission
\* ------------------------------------------------------------------------

\* one identifier for every position
QIdFirst(i) == Name("q_1")

\* The identifiers q_1, q_2, ... of f"q_{i+1}"
QuestionIds == <<"q_1", "q_2", "q_3", "q_4", "q_5", "q_6", "q_7", "q_8">>
QId(i) == Name(QuestionIds[i])

\* quiz_data: dict is FALSE for a document that is no dict.  questions.t is
\* "list", "absent" (no such key) or "none" (a value without len());
\* scoring.t is "dict", "absent" or "none" (a value without .get).
QuizData(items, scoring) ==
    [dict |-> TRUE, questions |-> [t |-> "list", items |-> items], scoring |-> scoring]
NoScoring == [t |-> "absent", total_points |-> Absent, passing_score |-> Absent]
Scoring(total, passing) ==
    [t |-> "dict", total_points |-> total, passing_score |-> passing]

\* user_answers: dict is FALSE for a submission that is no dict; map is the
\* function from question identifiers to submitted values
Answers(map) == [dict |-> TRUE, map |-> map]
NoAnswers == Answers(<<>>)

\* user_answers.get(question_id)
AnswerOf(user_answers, question_id) ==
    IF question_id \in DOMAIN user_answers.map THEN user_answers.map[question_id]
    ELSE None

\* grades with exclusive lower bounds
calculate_grade_strict(percentage) ==
    IF RatGt(percentage, Rat(90, 1)) THEN "A"
    ELSE IF RatGt(percentage, Rat(80, 1)) THEN "B"
    ELSE IF RatGt(percentage, Rat(70, 1)) THEN "C"
    ELSE IF RatGt(percentage, Rat(60, 1)) THEN "D"
    ELSE "F"

\* _calculate_grade
calculate_grade(percentage) ==
    IF RatGe(percentage, Rat(90, 1)) THEN "A"
    ELSE IF RatGe(percentage, Rat(80, 1)) THEN "B"
    ELSE IF RatGe(percentage, Rat(70, 1)) THEN "C"
    ELSE IF RatGe(percentage, Rat(60, 1)) THEN "D"
    ELSE "F"

QuestionTypesOf(results) == {results[i].question_type : i \in DOMAIN results}

\* _generate_performance_analysis (strengths and areas as sets of types)
generate_performance_analysis(results, percentage) ==
    LET total(ty) == Cardinality({i \in DOMAIN results : results[i].question_type = ty})
        correct(ty) == Cardinality({i \in DOMAIN results :
                                      results[i].question_type = ty /\ results[i].is_correct})
    IN [overall_performance |->
            IF RatGe(percentage, Rat(80, 1)) THEN "Excellent"
            ELSE IF RatGe(percentage, Rat(60, 1)) THEN "Good"
            ELSE "Needs Improvement",
        strengths |-> {ty \in QuestionTypesOf(results) :
                          RatGe(Rat(correct(ty), total(ty)), Rat(8, 10))},
        areas_for_improvement |-> {ty \in QuestionTypesOf(results) :
                          ~RatGe(Rat(correct(ty), total(ty)), Rat(6, 10))},
        recommendations |->
            IF ~RatGe(percentage, Rat(60, 1)) THEN "review fundamentals"
            ELSE IF ~RatGe(percentage, Rat(80, 1)) THEN "focus on missed areas"
            ELSE "explore advanced topics"]

\* _generate_error_result
generate_error_result(error_msg) ==
    [kind |-> "error", error |-> error_msg,
     score_summary |-> [total_questions |-> 0, correct_answers |-> 0,
                        total_points |-> 0, max_points |-> 0,
                        percentage_score |-> 0, passed |-> FALSE, grade |-> "F"]]

\* Lines 57-62 of the loop of evaluate_quiz_submission for the result of one
\* question: acc holds detailed_results, correct_answers and total_points so
\* far, and exc once an iteration has raised.
Tally(acc, result) ==
    IF result.exc # "" THEN [acc EXCEPT !.exc = result.exc]
    ELSE IF ~IsNumber(result.points_earned) THEN [acc EXCEPT !.exc = "TypeError"]
    ELSE [exc |-> "",
          detailed_results |-> Append(acc.detailed_results, result),
          correct_answers |-> acc.correct_answers + (IF result.is_correct THEN 1 ELSE 0),
          total_points |-> acc.total_points + result.points_earned.n]

\* The loop of evaluate_quiz_submission over questions[i..].
RECURSIVE GradeFrom(_, _, _, _)
GradeFrom(items, user_answers, i, acc) ==
    IF i > Len(items) \/ acc.exc # "" THEN acc
    ELSE IF ~items[i].dict \/ ~user_answers.dict
    THEN [acc EXCEPT !.exc = "AttributeError"]
    ELSE IF Get(items[i].question_id, QId(i)).t = "list"
    THEN [acc EXCEPT !.exc = "TypeError"]
    ELSE GradeFrom(items, user_answers, i + 1,
                   Tally(acc, evaluate_single_question(
                                  items[i],
                                  AnswerOf(user_answers,
                                           Get(items[i].question_id, QId(i))))))

\* Lines 64-112 of evaluate_quiz_submission, for the outcome loop of its
\* loop: the result dict, with the locals percentage_score and
\* passing_score beside it, or exc.
Summarise(quiz_data, total_questions, loop) ==
    LET scoring == quiz_data.scoring
        max_points == Get(scoring.total_points, PyInt(total_questions * 10))
        percentage_score == IF max_points.n > 0
                            THEN Rat(100 * loop.total_points, max_points.n)
                            ELSE Rat(0, 1)
        given_passing == Get(scoring.passing_score, None)
        passing_score == IF scoring.passing_score.t = "absent"
                         THEN Rat(6 * max_points.n, 10)
                         ELSE Rat(given_passing.n, 1)
    IN IF loop.exc # "" THEN [exc |-> loop.exc]
       ELSE IF ~IsNumber(max_points) THEN [exc |-> "TypeError"]
       ELSE IF ~(scoring.passing_score.t = "absent" \/ IsNumber(given_passing))
       THEN [exc |-> "TypeError"]
       ELSE [exc |-> "",
             result |->
               [kind |-> "ok", error |-> "",
                score_summary |->
                  [total_questions |-> total_questions,
                   correct_answers |-> loop.correct_answers,
                   incorrect_answers |-> total_questions - loop.correct_answers,
                   total_points |-> loop.total_points,
                   max_points |-> max_points.n,
                   percentage_score |-> Round2(percentage_score),
                   passed |-> RatGe(Rat(loop.total_points, 1), passing_score),
                   grade |-> calculate_grade(percentage_score)],
                detailed_results |-> loop.detailed_results,
                performance_analysis |->
                  generate_performance_analysis(loop.detailed_results, percentage_score)],
             percentage_score |-> percentage_score,
             passing_score |-> passing_score]

\* The body of the try block of evaluate_quiz_submission.
EvaluateBody(quiz_data, user_answers) ==
    IF ~quiz_data.dict THEN [exc |-> "AttributeError"]
    ELSE IF quiz_data.questions.t = "none" THEN [exc |-> "TypeError"]
    ELSE IF quiz_data.scoring.t = "none" THEN [exc |-> "AttributeError"]
    ELSE LET questions == IF quiz_data.questions.t = "list"
                          THEN quiz_data.questions.items ELSE <<>>
         IN Summarise(quiz_data, Len(questions),
                      GradeFrom(questions, user_answers, 1,
                                [exc |-> "", detailed_results |-> <<>>,
                                 correct_answers |-> 0, total_points |-> 0]))

\* What evaluate_quiz_submission hands to its caller for the outcome body of
\* its try block: with the except clause (lines 114-116) an exception becomes
\* the error result; without it, it would go to the caller.
Returned(body, except_clause) ==
    IF body.exc # ""
    THEN [exc |-> IF except_clause THEN "" ELSE body.exc,
          caught |-> IF except_clause THEN body.exc ELSE "",
          result |-> generate_error_result(body.exc),
          percentage_score |-> Rat(0, 1), passing_score |-> Rat(0, 1)]
    ELSE [exc |-> "", caught |-> "", result |-> body.result,
          percentage_score |-> body.percentage_score,
          passing_score |-> body.passing_score]

\* the try block alone: an exception goes to the caller
evaluate_quiz_submission_uncaught(quiz_data, user_answers) ==
    Returned(EvaluateBody(quiz_data, user_answers), FALSE)

\* evaluate_quiz_submission: the try block, and the except clause that turns
\* every exception into the error result
evaluate_quiz_submission(quiz_data, user_answers) ==
    Returned(EvaluateBody(quiz_data, user_answers), TRUE)

\* ------------------------------------------------------------------------
\* QuizGenerator: text analysis
\* ------------------------------------------------------------------------

\* the k-th smallest element of a set of numbers
Nth(S, k) == CHOOSE x \in S : Cardinality({y \in S : y < x}) = k - 1

\* re.split(r'[seps]+', s): the pieces of s between the maximal runs of the
\* characters seps
SplitRuns(s, seps) ==
    LET n == Len(s)
        starts == {i \in 1..n : s[i] \in seps /\ (i = 1 \/ s[i - 1] \notin seps)}
        ends == {i \in 1..n : s[i] \in seps /\ (i = n \/ s[i + 1] \notin seps)}
        m == Cardinality(starts)
    IN [k \in 1..(m + 1) |->
           SubSeq(s, IF k = 1 THEN 1 ELSE Nth(ends, k - 1) + 1,
                     IF k = m + 1 THEN n ELSE Nth(starts, k) - 1)]

SplitSentences(s) == SplitRuns(s, {".", "!", "?"})

\* s.split('\n\n'): the separators are found from the left and do not
\* overlap, so in a run of line feeds they begin at its 1st, 3rd, ... one
SplitBlankLines(s) ==
    LET n == Len(s)
        RunStart(i) == CHOOSE j \in 1..i : /\ \A k \in j..i : s[k] = "\n"
                                           /\ (j = 1 \/ s[j - 1] # "\n")
        seps == {i \in 1..(n - 1) : /\ s[i] = "\n" /\ s[i + 1] = "\n"
                                    /\ (i - RunStart(i)) % 2 = 0}
        m == Cardinality(seps)
    IN [k \in 1..(m + 1) |->
           SubSeq(s, IF k = 1 THEN 1 ELSE Nth(seps, k - 1) + 2,
                     IF k = m + 1 THEN n ELSE Nth(seps, k) - 1)]

\* [p.strip() for p in content.split('\n\n') if p.strip()]
ParagraphsOf(content) ==
    LET pieces == SplitBlankLines(content)
        kept == SelectSeq(pieces, LAMBDA p : Strip(p) # <<>>)
    IN [i \in DOMAIN kept |-> Strip(kept[i])]

\* re.findall(r'\b[A-Z][a-z]+\b', s): the words made of one capital and
\* then small letters only
CapitalizedWords(s) ==
    {w \in Range(FindWords(s)) :
        Len(w) > 1 /\ IsUpper(w[1]) /\ \A i \in 2..Len(w) : IsLower(w[i])}

\* the first index of character c in s, 0 when there is none
IndexOf(s, c) ==
    IF \E i \in DOMAIN s : s[i] = c
    THEN CHOOSE i \in DOMAIN s : s[i] = c /\ \A j \in 1..(i - 1) : s[j] # c
    ELSE 0

\* re.findall(r'"([^"]*)"', s): what stands between the first and the second
\* quote, the third and the fourth, ...
RECURSIVE QuotedTerms(_)
QuotedTerms(s) ==
    LET open == IndexOf(s, "\"")
        rest == SubSeq(s, open + 1, Len(s))
        close == IndexOf(rest, "\"")
    IN IF open = 0 \/ close = 0 THEN {}
       ELSE {SubSeq(rest, 1, close - 1)}
            \cup QuotedTerms(SubSeq(rest, close + 1, Len(rest)))

\* the leading run of characters of s that are no word characters
RECURSIVE GapPrefix(_)
GapPrefix(s) ==
    IF s = <<>> \/ IsWordChar(Head(s)) THEN <<>>
    ELSE <<Head(s)>> \o GapPrefix(Tail(s))

\* the words of s, each with the characters between it and the next word
RECURSIVE WordsAndGaps(_)
WordsAndGaps(s) ==
    IF s = <<>> THEN <<>>
    ELSE IF ~IsWordChar(Head(s)) THEN WordsAndGaps(Tail(s))
    ELSE LET w == WordPrefix(s)
             after == SubSeq(s, Len(w) + 1, Len(s))
             gap == GapPrefix(after)
         IN <<[w |-> w, gap |-> gap]>>
            \o WordsAndGaps(SubSeq(after, Len(gap) + 1, Len(after)))

Copulas == {<<"i", "s">>, <<"a", "r", "e">>, <<"m", "e", "a", "n", "s">>}

\* re.findall(r'\b\w+(?:\s+\w+){0,2}(?:\s+is\s+|\s+are\s+|\s+means\s+)', s),
\* and of each match its first word: a match at word i is the word, as many
\* as possible of up to two more words, and "is", "are" or "means", all
\* separated by white space only and with white space after; the search goes
\* on behind the match
RECURSIVE DefinedWords(_, _)
DefinedWords(toks, i) ==
    LET IsGap(m) == toks[m].gap # <<>> /\ \A j \in DOMAIN toks[m].gap : IsSpace(toks[m].gap[j])
        Matches(k) == /\ i + k + 1 <= Len(toks)
                      /\ \A m \in i..(i + k) : IsGap(m)
                      /\ toks[i + k + 1].w \in Copulas
                      /\ toks[i + k + 1].gap # <<>>
                      /\ IsSpace(Head(toks[i + k + 1].gap))
        ks == {k \in 0..2 : Matches(k)}
        best == CHOOSE k \in ks : \A h \in ks : k >= h
    IN IF i > Len(toks) THEN {}
       ELSE IF ks = {} THEN DefinedWords(toks, i + 1)
       ELSE {toks[i].w} \cup DefinedWords(toks, i + best + 2)

\* key_concepts[:20]
MaxConcepts == 20

\* _extract_key_concepts of a str: the set of the concepts (the list holds
\* them in the order of a set of strings, and at most 20 of them)
ConceptsOf(content) ==
    LET sentences == SplitSentences(content)
        found == UNION {CapitalizedWords(sentences[i]) \cup QuotedTerms(sentences[i])
                        \cup DefinedWords(WordsAndGaps(sentences[i]), 1) :
                           i \in DOMAIN sentences}
    IN {Strip(c) : c \in {d \in found : Len(Strip(d)) > 2}}

\* _extract_key_concepts: the lists it may return, as sets; [] when the
\* content is no str (re.split raises, the except clause returns [])
extract_key_concepts(lesson_content) ==
    IF lesson_content.t # "str" THEN {{}}
    ELSE LET all == ConceptsOf(lesson_content.s)
         IN IF Cardinality(all) <= MaxConcepts THEN {all}
            ELSE {c \in SUBSET all : Cardinality(c) = MaxConcepts}

\* ------------------------------------------------------------------------
\* QuizGenerator: the generation strategies
\* ------------------------------------------------------------------------

\* the dict a strategy returns: no question_id and no points yet
NewQuestion(type, text, options, correct, sample) ==
    [dict |-> TRUE, question_id |-> Absent, type |-> Name(type), points |-> Absent,
     correct_answer |-> correct, sample_answer |-> sample,
     question |-> text, options |-> options]

\* _generate_multiple_choice: the questions it may return; NotADict (None)
\* when random.choice raises IndexError for want of a paragraph longer than
\* 100 characters, or of a sentence longer than 20 in the paragraph chosen
generate_multiple_choice(paragraphs, concepts, subject, topic) ==
    LET long == {i \in DOMAIN paragraphs : Len(paragraphs[i]) > 100}
        HasFact(i) == \E j \in DOMAIN SplitSentences(paragraphs[i]) :
                         Len(Strip(SplitSentences(paragraphs[i])[j])) > 20
        questions ==
            IF concepts # {}
            THEN {NewQuestion("multiple_choice",
                      <<"What is the significance of ">> \o concept \o <<" in ">>
                          \o topic \o <<"?">>,
                      <<concept \o <<" is fundamental to understanding ">> \o topic,
                        concept \o <<" is rarely used in ">> \o topic,
                        concept \o <<" contradicts the principles of ">> \o topic,
                        concept \o <<" is only theoretical in ">> \o topic>>,
                      PyInt(0), Absent) : concept \in concepts}
            ELSE {NewQuestion("multiple_choice",
                      <<"Which statement best describes ">> \o topic \o <<"?">>,
                      <<topic \o <<" is an important concept in ">> \o subject,
                        topic \o <<" is outdated in modern ">> \o subject,
                        topic \o <<" is only for advanced students">>,
                        topic \o <<" has no practical applications">>>>,
                      PyInt(0), Absent)}
    IN IF long = {} THEN {NotADict}
       ELSE UNION {IF HasFact(i) THEN questions ELSE {NotADict} : i \in long}

\* _generate_true_false
generate_true_false(paragraphs, concepts, subject, topic) ==
    IF concepts # {}
    THEN {NewQuestion("true_false",
              IF is_true THEN concept \o <<" is an important element in ">> \o topic
              ELSE concept \o <<" is completely unrelated to ">> \o topic,
              <<>>, PyBool(is_true), Absent) : concept \in concepts, is_true \in BOOLEAN}
    ELSE {NewQuestion("true_false",
              <<"Understanding ">> \o topic \o <<" is beneficial for students of ">>
                  \o subject,
              <<>>, PyBool(TRUE), Absent)}

\* _generate_fill_in_blank
generate_fill_in_blank(paragraphs, concepts, subject, topic) ==
    IF concepts # {}
    THEN {NewQuestion("fill_in_blank",
              <<"The concept of _____ is fundamental to understanding ">> \o topic
                  \o <<" in ">> \o subject \o <<".">>,
              <<>>, PyStr(concept), Absent) : concept \in concepts}
    ELSE {NewQuestion("fill_in_blank",
              <<"_____ is the main subject area that encompasses ">> \o topic \o <<".">>,
              <<>>, PyStr(subject), Absent)}

IsImportantIn ==
    <<" ", "i", "s", " ", "i", "m", "p", "o", "r", "t", "a", "n", "t", " ", "i", "n", " ">>
BecauseItProvides ==
    <<" ", "b", "e", "c", "a", "u", "s", "e", " ", "i", "t", " ", "p", "r", "o", "v",
      "i", "d", "e", "s", " ", "f", "o", "u", "n", "d", "a", "t", "i", "o", "n", "a", "l",
      " ", "u", "n", "d", "e", "r", "s", "t", "a", "n", "d", "i", "n", "g", " ", "a", "n",
      "d", " ", "p", "r", "a", "c", "t", "i", "c", "a", "l", " ", "a", "p", "p", "l", "i",
      "c", "a", "t", "i", "o", "n", "s", ".">>

\* a short_answer strategy that needs a key concept and returns None
\* without one
generate_short_answer_of_concept(paragraphs, concepts, subject, topic) ==
    IF concepts = {} THEN {NotADict}
    ELSE {NewQuestion("short_answer",
              <<"Explain the importance of ">> \o concept \o <<" in ">> \o subject
                  \o <<".">>,
              <<>>, Absent, PyStr(concept \o IsImportantIn \o subject \o BecauseItProvides)) :
            concept \in concepts}

\* _generate_short_answer
generate_short_answer(paragraphs, concepts, subject, topic) ==
    {NewQuestion("short_answer",
         <<"Explain the importance of ">> \o topic \o <<" in ">> \o subject \o <<".">>,
         <<>>, Absent, PyStr(topic \o IsImportantIn \o subject \o BecauseItProvides))}

\* _generate_basic_questions
generate_basic_questions(subject, topic, num_questions) ==
    [i \in 1..num_questions |->
        [dict |-> TRUE, question_id |-> QId(i), type |-> Name("multiple_choice"),
         points |-> PyInt(10), correct_answer |-> PyInt(0), sample_answer |-> Absent,
         question |-> <<"What is the main focus of ">> \o topic \o <<" in ">> \o subject
                      \o <<"?">>,
         options |-> <<<<"Understanding fundamental concepts of ">> \o topic,
                       <<"Memorizing facts about ">> \o topic,
                       <<"Ignoring ">> \o topic \o <<" completely">>,
                       <<"Only theoretical study of ">> \o topic>>]]

\* ------------------------------------------------------------------------
\* QuizGenerator: _generate_questions and generate_quiz_from_content
\* ------------------------------------------------------------------------

\* The question_types argument: t is "none" (None), "list" (a list of type
\* names) or "set" (a collection random.choice cannot index: a set).
NoTypes == [t |-> "none", items |-> <<>>]
TypeList(items) == [t |-> "list", items |-> items]
TypeSet(items) == [t |-> "set", items |-> items]

\* question_types or ["multiple_choice", "true_false"]
TypesOrDefault(question_types) ==
    IF question_types.t = "none" \/ question_types.items = <<>>
    THEN TypeList(<<"multiple_choice", "true_false">>)
    ELSE question_types

\* what one pass of the loop may produce for the type drawn
StrategyResults(question_type, paragraphs, concepts, subject, topic) ==
    IF question_type = "multiple_choice"
    THEN generate_multiple_choice(paragraphs, concepts, subject, topic)
    ELSE IF question_type = "true_false"
    THEN generate_true_false(paragraphs, concepts, subject, topic)
    ELSE IF question_type = "fill_in_blank"
    THEN generate_fill_in_blank(paragraphs, concepts, subject, topic)
    ELSE generate_short_answer(paragraphs, concepts, subject, topic)

\* the questions list after the passes i..n of the loop, made[j] being what
\* pass j produced: every dict gets q_j and 10 points, every None is skipped
RECURSIVE Collect(_, _, _)
Collect(made, i, n) ==
    IF i > n THEN <<>>
    ELSE (IF made[i].dict
          THEN <<[made[i] EXCEPT !.question_id = QId(i), !.points = PyInt(10)]>>
          ELSE <<>>) \o Collect(made, i + 1, n)

\* _generate_questions: the returns it may make, each with caught = TRUE when
\* its except clause ran (content.split or random.choice raised) and the
\* basic questions were returned
generate_questions(content, key_concepts, subject, topic, num_questions, question_types) ==
    LET basic == [caught |-> TRUE,
                  questions |-> generate_basic_questions(subject, topic, num_questions)]
        paragraphs == ParagraphsOf(content.s)
        slot == UNION {StrategyResults(question_types.items[k], paragraphs, key_concepts,
                                       subject, topic) : k \in DOMAIN question_types.items}
    IN IF content.t # "str" THEN {basic}
       ELSE IF num_questions = 0 THEN {[caught |-> FALSE, questions |-> <<>>]}
       ELSE IF question_types.t # "list" THEN {basic}
       ELSE {[caught |-> FALSE, questions |-> Collect(made, 1, num_questions)] :
                made \in [1..num_questions -> slot]}

\* a fallback quiz whose scoring is derived from num_questions while it
\* holds no question
generate_fallback_quiz_empty(subject, topic, num_questions) ==
    [quiz_id |-> "fallback_quiz", subject |-> subject, topic |-> topic,
     difficulty |-> "medium", total_questions |-> num_questions,
     estimated_time |-> num_questions * 2,
     questions |-> <<>>,
     scoring |-> [total_points |-> num_questions * 10,
                  passing_score |-> num_questions * 6, points_per_question |-> 10],
     metadata |-> [fallback_mode |-> TRUE]]

\* _generate_fallback_quiz
generate_fallback_quiz(subject, topic, num_questions) ==
    [quiz_id |-> "fallback_quiz", subject |-> subject, topic |-> topic,
     difficulty |-> "medium", total_questions |-> num_questions,
     estimated_time |-> num_questions * 2,
     questions |-> generate_basic_questions(subject, topic, num_questions),
     scoring |-> [total_points |-> num_questions * 10,
                  passing_score |-> num_questions * 6, points_per_question |-> 10],
     metadata |-> [fallback_mode |-> TRUE]]

\* len(lesson_content) raises TypeError
HasNoLen(v) == v.t \in {"none", "int", "bool"}
LenOf(v) == IF v.t = "str" THEN Len(v.s) ELSE 1

\* generate_quiz_from_content: the returns it may make, each with the except
\* clauses that ran on the way: "questions" for the one of
\* _generate_questions, "quiz" for its own
generate_quiz_from_content(lesson_content, subject, topic, num_questions, difficulty, question_types) ==
    UNION {
      {IF HasNoLen(lesson_content)
       THEN [caught |-> (IF made.caught THEN {"questions"} ELSE {}) \cup {"quiz"},
             quiz |-> generate_fallback_quiz(subject, topic, num_questions)]
       ELSE [caught |-> IF made.caught THEN {"questions"} ELSE {},
             quiz |->
               [quiz_id |-> "quiz", subject |-> subject, topic |-> topic,
                difficulty |-> difficulty, total_questions |-> Len(made.questions),
                estimated_time |-> Len(made.questions) * 2,
                questions |-> made.questions,
                scoring |-> [total_points |-> Len(made.questions) * 10,
                             passing_score |-> Len(made.questions) * 6,
                             points_per_question |-> 10],
                metadata |-> [content_length |-> LenOf(lesson_content),
                              key_concepts_count |-> Cardinality(key_concepts),
                              question_types_used |->
                                  {made.questions[i].type : i \in DOMAIN made.questions}]]] :
         made \in generate_questions(lesson_content, key_concepts, subject, topic,
                                     num_questions, TypesOrDefault(question_types))} :
      key_concepts \in extract_key_concepts(lesson_content)}

\* ------------------------------------------------------------------------
\* The documents and submissions the calls are made with
\* ------------------------------------------------------------------------

\* longest quiz built from QuestionPool
MaxQuestions == 2
\* longest quiz of ten-point multiple_choice questions
MaxUniform == 5

Paris == <<"P", "a", "r", "i", "s">>
TheCatSat == <<"t", "h", "e", " ", "c", "a", "t", " ", "s", "a", "t">>

\* submitted values: texts, indices, booleans, nothing
TextAnswers ==
    {PyStr(<<>>), PyStr(<<" ">>), PyStr(Paris), PyStr(<<" ", "P", "a", "r", "i", "s", " ">>),
     PyStr(<<"P", "a", "r", "i">>), PyStr(<<"p", "a", "r">>), PyStr(<<"p", "i">>),
     PyStr(<<"r", "o", "m", "e">>), PyStr(TheCatSat), PyStr(<<"a", " ", "c", "a", "t">>),
     PyStr(<<"C", "a", "t", " ", "S", "a", "t">>), PyStr(<<"c", "a", "t">>),
     PyStr(<<"d", "o", "g">>), PyStr(<<"o", "n", " ", "a">>)}
OtherAnswers == {None, PyInt(0), PyInt(1), PyInt(2), PyBool(TRUE), PyBool(FALSE)}
AnswerPool == TextAnswers \cup OtherAnswers

QuestionTypes == {Name("multiple_choice"), Name("true_false"), Name("fill_in_blank"),
                  Name("short_answer")}

\* point values of well-formed questions
PointValues == {Absent, PyInt(0), PyInt(1), PyInt(5), PyInt(7), PyInt(10)}

\* the answer key a question of each type may carry
KeysOf(type) ==
    CASE type = Name("multiple_choice") -> {Absent, PyInt(0), PyInt(2)}
      [] type = Name("true_false") -> {Absent, PyBool(TRUE), PyBool(FALSE)}
      [] type = Name("fill_in_blank") -> {Absent, PyStr(Paris), PyStr(<<"c", "a", "t">>)}
      [] OTHER -> {Absent, PyStr(TheCatSat), PyStr(<<"o", "n", " ", "a">>),
                   PyStr(<<"d", "o", "g">>)}

\* well-formed questions: every type, point value and answer key
WellFormedQuestions ==
    {Question(Name("q_1"), type, points,
              IF type = Name("short_answer") THEN Absent ELSE key,
              IF type = Name("short_answer") THEN key ELSE Absent) :
        <<type, points, key>> \in
            {x \in (QuestionTypes \cup {Absent}) \X PointValues \X
                   UNION {KeysOf(ty) : ty \in QuestionTypes} :
                x[3] \in KeysOf(IF x[1] = Absent THEN Name("multiple_choice") ELSE x[1])}}

\* questions that do not grade: an unknown type, an answer key of the wrong
\* type, points that are no number or are negative
FaultyQuestions ==
    {Question(Name("q_1"), Name("essay"), PyInt(10), Absent, Absent),
     Question(Name("q_1"), PyInt(3), PyInt(5), PyInt(0), Absent),
     Question(Name("q_1"), Name("fill_in_blank"), PyInt(10), None, Absent),
     Question(Name("q_1"), Name("fill_in_blank"), PyInt(10), PyInt(3), Absent),
     Question(Name("q_1"), Name("short_answer"), PyInt(10), Absent, PyList),
     Question(Name("q_1"), Name("multiple_choice"), None, PyInt(0), Absent),
     Question(Name("q_1"), Name("true_false"), PyStr(<<"1", "0">>), PyBool(TRUE), Absent),
     Question(Name("q_1"), Name("fill_in_blank"), PyStr(<<"1", "0">>), PyStr(Paris), Absent),
     Question(Name("q_1"), Name("fill_in_blank"), None, PyStr(Paris), Absent),
     Question(Name("q_1"), Name("short_answer"), None, Absent, PyStr(TheCatSat)),
     Question(PyList, Name("multiple_choice"), PyInt(10), PyInt(0), Absent),
     Question(Name("q_1"), Name("true_false"), PyInt(-5), PyBool(TRUE), Absent),
     NotADict}

\* one question, any submitted value, any scoring policy
SingleQuestionCalls ==
    {[quiz_data |-> QuizData(<<q>>, sc),
      user_answers |-> IF a = Absent THEN NoAnswers
                       ELSE Answers([id \in {Name("q_1")} |-> a])] :
        q \in WellFormedQuestions \cup FaultyQuestions,
        a \in AnswerPool \cup {Absent},
        sc \in {NoScoring, Scoring(PyInt(30), Absent), Scoring(Absent, PyInt(6)),
                Scoring(PyInt(0), Absent)}}

\* Questions of the longer quizzes, each with the values submitted for it
\* (Absent: the submission has no entry for the question).
QuestionPool ==
    {[q |-> Question(Name("id"), Name("multiple_choice"), PyInt(10), PyInt(2), Absent),
      choices |-> {Absent, PyInt(2), PyInt(0)}],
     [q |-> Question(Absent, Name("true_false"), Absent, PyBool(TRUE), Absent),
      choices |-> {PyBool(TRUE), PyBool(FALSE)}],
     [q |-> Question(Name("id"), Name("fill_in_blank"), PyInt(5), PyStr(Paris), Absent),
      choices |-> {PyStr(Paris), PyStr(<<"P", "a", "r", "i">>), PyStr(<<"r", "o", "m", "e">>)}],
     [q |-> Question(Name("id"), Name("short_answer"), PyInt(10), Absent, PyStr(TheCatSat)),
      choices |-> {Absent, PyStr(<<"C", "a", "t", " ", "S", "a", "t">>),
                   PyStr(<<"c", "a", "t">>)}],
     [q |-> Question(Name("id"), Name("essay"), PyInt(10), Absent, Absent),
      choices |-> {PyInt(0)}],
     [q |-> Question(Name("id"), Name("fill_in_blank"), PyInt(10), None, Absent),
      choices |-> {PyStr(Paris)}],
     [q |-> Question(Name("id"), Name("multiple_choice"), None, PyInt(0), Absent),
      choices |-> {PyInt(0), PyInt(1)}],
     [q |-> NotADict, choices |-> {Absent}]}

\* the question at position i of a quiz: a question that carries an
\* identifier carries q_i
Place(q, i) == IF q.question_id = Name("id") THEN [q EXCEPT !.question_id = QId(i)] ELSE q

PoolChoice == {<<e, a>> \in QuestionPool \X (AnswerPool \cup {Absent}) : a \in e.choices}

PoolCalls ==
    UNION {{[quiz_data |-> QuizData([i \in 1..n |-> Place(pick[i][1].q, i)], sc),
             user_answers |->
                 Answers([id \in {QId(i) : i \in {j \in 1..n : pick[j][2] # Absent}}
                            |-> pick[CHOOSE i \in 1..n : QId(i) = id][2]])] :
               pick \in [1..n -> PoolChoice],
               sc \in {NoScoring, Scoring(PyInt(30), PyInt(10))}} : n \in 0..MaxQuestions}

\* n ten-point multiple_choice questions, those of right answered correctly
UniformCalls ==
    UNION {{[quiz_data |->
                 QuizData([i \in 1..n |-> Question(QId(i), Name("multiple_choice"),
                                                   PyInt(10), PyInt(0), Absent)], sc),
             user_answers |->
                 Answers([id \in {QId(i) : i \in 1..n}
                            |-> IF \E i \in right : QId(i) = id THEN PyInt(0) ELSE PyInt(1)])] :
               right \in SUBSET (1..n),
               sc \in {NoScoring, Scoring(PyInt(10 * n), PyInt(6 * n))}} : n \in 0..MaxUniform}

\* documents and submissions that are not what the evaluator expects
MalformedCalls ==
    LET mc == Question(Name("q_1"), Name("multiple_choice"), PyInt(10), PyInt(0), Absent)
        ok == Answers([id \in {Name("q_1")} |-> PyInt(0)])
        bad == [dict |-> FALSE, map |-> <<>>]
    IN {[quiz_data |-> [QuizData(<<mc>>, NoScoring) EXCEPT !.dict = FALSE], user_answers |-> ok],
        [quiz_data |-> [QuizData(<<>>, NoScoring) EXCEPT !.questions.t = "none"],
         user_answers |-> ok],
        [quiz_data |-> [QuizData(<<>>, NoScoring) EXCEPT !.questions.t = "absent"],
         user_answers |-> ok],
        [quiz_data |-> [QuizData(<<mc>>, NoScoring) EXCEPT !.scoring.t = "none"],
         user_answers |-> ok],
        [quiz_data |-> QuizData(<<mc>>, Scoring(None, Absent)), user_answers |-> ok],
        [quiz_data |-> QuizData(<<mc>>, Scoring(PyStr(<<"1", "0">>), Absent)),
         user_answers |-> ok],
        [quiz_data |-> QuizData(<<mc>>, Scoring(PyInt(10), None)), user_answers |-> ok],
        [quiz_data |-> QuizData(<<mc>>, Scoring(PyInt(10), PyList)), user_answers |-> ok],
        [quiz_data |-> QuizData(<<mc>>, NoScoring), user_answers |-> bad],
        [quiz_data |-> QuizData(<<>>, NoScoring), user_answers |-> bad]}

\* every call of evaluate_quiz_submission that is made
EvaluateCalls == SingleQuestionCalls \cup PoolCalls \cup UniformCalls \cup MalformedCalls

\* ------------------------------------------------------------------------
\* The requests generate_quiz_from_content is called with
\* ------------------------------------------------------------------------

\* largest num_questions requested
MaxNumQuestions == 3

Math == <<"M", "a", "t", "h">>
\* the empty subject name
NoSubject == <<>>
Algebra == <<"A", "l", "g", "e", "b", "r", "a">>

\* one paragraph of more than 100 characters with sentences of more than 20,
\* naming the concepts Algebra and Students
LessonText ==
    <<"A", "l", "g", "e", "b", "r", "a", " ", "i", "s", " ", "t", "h", "e", " ", "s",
      "t", "u", "d", "y", " ", "o", "f", " ", "s", "y", "m", "b", "o", "l", "s", " ",
      "a", "n", "d", " ", "t", "h", "e", " ", "r", "u", "l", "e", "s", " ", "f", "o",
      "r", " ", "c", "o", "m", "b", "i", "n", "i", "n", "g", " ", "t", "h", "e", "m",
      ".", " ", "S", "t", "u", "d", "e", "n", "t", "s", " ", "s", "o", "l", "v", "e",
      " ", "e", "q", "u", "a", "t", "i", "o", "n", "s", " ", "b", "y", " ", "k", "e",
      "e", "p", "i", "n", "g", " ", "b", "o", "t", "h", " ", "s", "i", "d", "e", "s",
      " ", "i", "n", " ", "b", "a", "l", "a", "n", "c", "e", ".">>

\* one paragraph of more than 100 characters that names no concept
PlainText ==
    <<"t", "h", "e", " ", "s", "t", "u", "d", "y", " ", "o", "f", " ", "s", "y", "m",
      "b", "o", "l", "s", " ", "r", "e", "q", "u", "i", "r", "e", "s", " ", "s", "t",
      "e", "a", "d", "y", " ", "p", "r", "a", "c", "t", "i", "c", "e", " ", "a", "n",
      "d", " ", "p", "a", "t", "i", "e", "n", "c", "e", " ", "f", "r", "o", "m", " ",
      "e", "v", "e", "r", "y", " ", "s", "t", "u", "d", "e", "n", "t", " ", "w", "h",
      "o", " ", "w", "a", "n", "t", "s", " ", "t", "o", " ", "s", "o", "l", "v", "e",
      " ", "h", "a", "r", "d", "e", "r", " ", "p", "r", "o", "b", "l", "e", "m", "s",
      " ", "l", "a", "t", "e", "r">>

\* one paragraph of more than 100 characters, no sentence of which has more
\* than 20
ChoppyText ==
    <<"w", "e", " ", "a", "d", "d", ".", " ", "w", "e", " ", "t", "a", "k", "e", ".",
      " ", "w", "e", " ", "a", "d", "d", ".", " ", "w", "e", " ", "t", "a", "k", "e",
      ".", " ", "w", "e", " ", "a", "d", "d", ".", " ", "w", "e", " ", "t", "a", "k",
      "e", ".", " ", "w", "e", " ", "a", "d", "d", ".", " ", "w", "e", " ", "t", "a",
      "k", "e", ".", " ", "w", "e", " ", "a", "d", "d", ".", " ", "w", "e", " ", "t",
      "a", "k", "e", ".", " ", "w", "e", " ", "a", "d", "d", ".", " ", "w", "e", " ",
      "t", "a", "k", "e", ".", " ", "w", "e", " ", "a", "d", "d", ".", " ", "w", "e",
      " ", "t", "a", "k", "e", ".", " ">>

ShortText == <<"A", "l", "g", "e", "b", "r", "a", " ", "i", "s", " ", "f", "u", "n", ".">>

\* lesson contents: texts, and values that are no text
LessonContents ==
    {PyStr(<<>>), PyStr(ShortText), PyStr(LessonText), PyStr(PlainText), PyStr(ChoppyText),
     PyStr(ChoppyText \o <<"\n", "\n">> \o LessonText), None, PyList}

\* question_types arguments
TypeArguments ==
    {NoTypes, TypeList(<<>>),
     TypeList(<<"multiple_choice", "true_false", "fill_in_blank", "short_answer">>),
     TypeList(<<"short_answer">>), TypeList(<<"multiple_choice">>), TypeList(<<"essay">>),
     TypeSet(<<"short_answer">>)}

\* every call of generate_quiz_from_content that is made
GenerateCalls ==
    [lesson_content : LessonContents, subject : {Math}, topic : {Algebra},
     num_questions : 0..MaxNumQuestions, difficulty : {"medium", "hard"},
     question_types : TypeArguments]

\* the calls whose quiz is then submitted to the evaluator: a text with
\* concepts and the empty text, a named and an empty subject, every strategy
RoundTripCalls ==
    [lesson_content : {PyStr(<<>>), PyStr(LessonText)}, subject : {Math, NoSubject},
     topic : {Algebra}, num_questions : 0..MaxQuestions, difficulty : {"medium"},
     question_types :
         {TypeList(<<"multiple_choice", "true_false", "fill_in_blank", "short_answer">>)}]

\* the quiz document a returned quiz is when it is passed to
\* evaluate_quiz_submission: the same dict, its questions and its scoring
QuizDocument(returned) ==
    QuizData(returned.questions,
             Scoring(PyInt(returned.scoring.total_points),
                     PyInt(returned.scoring.passing_score)))

\* the submission that holds, for each question identifier of the quiz, the
\* question's own sample_answer (short_answer) or correct_answer
OwnAnswers(returned) ==
    Answers([id \in {returned.questions[i].question_id : i \in DOMAIN returned.questions} |->
        LET q == returned.questions[CHOOSE i \in DOMAIN returned.questions :
                                       returned.questions[i].question_id = id]
        IN IF q.type = Name("short_answer") THEN q.sample_answer ELSE q.correct_answer])

\* ------------------------------------------------------------------------
\* State
\* ------------------------------------------------------------------------

VARIABLES
    pc,            \* "generate" / "evaluate": generate_quiz_from_content /
                   \* evaluate_quiz_submission is about to be called;
                   \* "generated" / "done": the call has returned
    request,       \* the arguments passed to generate_quiz_from_content
    quiz,          \* the quiz generate_quiz_from_content returned
    gen_caught,    \* the except clauses that ran in that call
    quiz_data,     \* the quiz document passed to evaluate_quiz_submission
    user_answers,  \* the submission passed to evaluate_quiz_submission
    evaluation,    \* what evaluate_quiz_submission returned
    locals         \* its locals percentage_score, passing_score and the
                   \* exception its except clause caught ("" when none)

vars == <<pc, request, quiz, gen_caught, quiz_data, user_answers, evaluation, locals>>

NoRequest == [num_questions |-> 0]
NoQuiz == [quiz_id |-> "none"]
NoEvaluation == [kind |-> "none"]
NoLocals == [caught |-> "", percentage_score |-> Rat(0, 1), passing_score |-> Rat(0, 1)]

\* generator.generate_quiz_from_content(lesson_content, subject, topic,
\*                                       num_questions, difficulty, question_types)
GenerateQuizFromContent ==
    /\ pc = "generate"
    /\ \E r \in generate_quiz_from_content(request.lesson_content, request.subject,
                                           request.topic, request.num_questions,
                                           request.difficulty, request.question_types) :
          /\ quiz' = r.quiz
          /\ gen_caught' = r.caught
    /\ pc' = "generated"
    /\ UNCHANGED <<request, quiz_data, user_answers, evaluation, locals>>

\* quizzer.evaluate_quiz_submission(quiz_data, user_answers)
EvaluateQuizSubmission ==
    /\ pc = "evaluate"
    /\ \E r \in {evaluate_quiz_submission(quiz_data, user_answers)} :
          /\ evaluation' = (IF r.exc # "" THEN [kind |-> "raise"] ELSE r.result)
          /\ locals' = [caught |-> r.caught, percentage_score |-> r.percentage_score,
                        passing_score |-> r.passing_score]
    /\ pc' = "done"
    /\ UNCHANGED <<request, quiz, gen_caught, quiz_data, user_answers>>

\* the quiz returned is submitted to the evaluator, with its own answers or
\* with no answers
Submit ==
    /\ pc = "generated"
    /\ quiz_data' = QuizDocument(quiz)
    /\ user_answers' \in {OwnAnswers(quiz), NoAnswers}
    /\ pc' = "evaluate"
    /\ UNCHANGED <<request, quiz, gen_caught, evaluation, locals>>

InitGenerate ==
    /\ pc = "generate"
    /\ request \in GenerateCalls
    /\ quiz_data = QuizData(<<>>, NoScoring)
    /\ user_answers = NoAnswers

InitEvaluate ==
    /\ pc = "evaluate"
    /\ request = NoRequest
    /\ \E call \in EvaluateCalls :
          /\ quiz_data = call.quiz_data
          /\ user_answers = call.user_answers

Init ==
    /\ InitGenerate \/ InitEvaluate
    /\ quiz = NoQuiz
    /\ gen_caught = {}
    /\ evaluation = NoEvaluation
    /\ locals = NoLocals

Next == GenerateQuizFromContent \/ EvaluateQuizSubmission

Spec == Init /\ [][Next]_vars

\* generate, submit, evaluate: the quiz document returned by the generator
\* is the input of the evaluator
InitRoundTrip ==
    /\ pc = "generate"
    /\ request \in RoundTripCalls
    /\ quiz = NoQuiz
    /\ gen_caught = {}
    /\ quiz_data = QuizData(<<>>, NoScoring)
    /\ user_answers = NoAnswers
    /\ evaluation = NoEvaluation
    /\ locals = NoLocals

NextRoundTrip == GenerateQuizFromContent \/ Submit \/ EvaluateQuizSubmission

RoundTripSpec == InitRoundTrip /\ [][NextRoundTrip]_vars

\* ------------------------------------------------------------------------
\* Properties
\* ------------------------------------------------------------------------

\* the questions of the document under evaluation
Items == IF quiz_data.questions.t = "list" THEN quiz_data.questions.items ELSE <<>>

\* what the submission holds for the question at position i
SubmittedFor(i) == AnswerOf(user_answers, Get(Items[i].question_id, QId(i)))

\* evaluate_quiz_submission has returned a normal evaluation
Graded == pc = "done" /\ evaluation.kind = "ok"

KnownTypes == {Name("multiple_choice"), Name("true_false"), Name("fill_in_blank"),
               Name("short_answer")}

\* the question is a dict whose type (multiple_choice when it names none) is ty
TypeIs(q, ty) == q.dict /\ Get(q.type, Name("multiple_choice")) = Name(ty)

\* the question is worth a number of points (10 when it names none)
NumericPoints(q) == Get(q.points, PyInt(10)).t \in {"int", "bool"}
PointsOf(q) == Get(q.points, PyInt(10)).n

\* the submitted value is a text or is missing
TextOrMissing(a) == a.t \in {"str", "none"}

\* a submission trimmed and lowercased, the empty string when it is missing
Normalised(a) == IF a.t = "str" THEN Lower(Strip(a.s)) ELSE <<>>

\* C1: whenever an except clause ran while the quiz was generated, the quiz
\* returned has exactly num_questions questions, all of type multiple_choice,
\* and its metadata holds fallback_mode = true.
C1_RaiseGivesFallbackQuiz ==
    (pc = "generated" /\ gen_caught # {}) =>
        /\ Len(quiz.questions) = request.num_questions
        /\ \A i \in DOMAIN quiz.questions : quiz.questions[i].type = Name("multiple_choice")
        /\ "fallback_mode" \in DOMAIN quiz.metadata
        /\ quiz.metadata.fallback_mode

\* C2: evaluate_quiz_submission never raises to its caller, and whenever its
\* except clause caught an exception the result is the error result: an
\* error message and a summary of 0 questions, 0 correct, 0 points, 0 max
\* points, 0 percent, not passed, grade F.
C2_NeverRaises ==
    pc = "done" =>
        /\ evaluation.kind \in {"ok", "error"}
        /\ locals.caught # "" =>
               /\ evaluation.kind = "error"
               /\ evaluation.error # ""
               /\ evaluation.score_summary =
                      [total_questions |-> 0, correct_answers |-> 0, total_points |-> 0,
                       max_points |-> 0, percentage_score |-> 0, passed |-> FALSE,
                       grade |-> "F"]
        /\ locals.caught = "" => evaluation.kind = "ok"

\* a malformed document or submission made the except clause run
C2_Witness ==
    /\ pc = "done"
    /\ locals.caught # ""
    /\ evaluation.kind = "error"
    /\ ~quiz_data.dict \/ ~user_answers.dict \/ quiz_data.scoring.t = "none"

\* an entry of the questions list that does not grade: no dict, points that
\* are no number, an identifier or an answer key of the wrong type
FaultyEntry(q) ==
    \/ ~q.dict
    \/ ~NumericPoints(q)
    \/ q.question_id.t = "list"
    \/ TypeIs(q, "fill_in_blank") /\ Get(q.correct_answer, PyStr(<<>>)).t # "str"
    \/ TypeIs(q, "short_answer") /\ Get(q.sample_answer, PyStr(<<>>)).t # "str"

\* C3: when exactly one question of a well-formed document fails to grade,
\* evaluate_quiz_submission returns a normal evaluation with one result per
\* question in quiz order, the faulty question as an error result and every
\* other question graded as it is graded alone.
C3_FaultIsContained ==
    ( /\ pc = "done"
      /\ quiz_data.dict /\ quiz_data.questions.t = "list" /\ user_answers.dict
      /\ quiz_data.scoring.t # "none"
      /\ IsNumber(Get(quiz_data.scoring.total_points, PyInt(0)))
      /\ IsNumber(Get(quiz_data.scoring.passing_score, PyInt(0)))
      /\ Cardinality({i \in DOMAIN Items : FaultyEntry(Items[i])}) = 1 ) =>
        /\ evaluation.kind = "ok"
        /\ Len(evaluation.detailed_results) = Len(Items)
        /\ \A i \in DOMAIN Items :
              IF FaultyEntry(Items[i])
              THEN evaluation.detailed_results[i].error # ""
              ELSE evaluation.detailed_results[i] =
                       evaluate_single_question(Items[i], SubmittedFor(i))

\* the question is a dict whose type is none of the four
UnknownType(q) == q.dict /\ Get(q.type, Name("multiple_choice")) \notin KnownTypes

\* an error result: incorrect, no points, an error message
IsErrorResult(r) ==
    /\ r.exc = ""
    /\ ~r.is_correct
    /\ r.points_earned = PyInt(0)
    /\ r.error # ""

\* C4: _evaluate_single_question raises for no question the loop passes to
\* it, and for a question of unknown type it returns an error result
\* (incorrect, 0 points, an error message) whatever answer is submitted; that
\* result is the one the evaluation lists.
C4_UnknownTypeGivesErrorResult ==
    /\ user_answers.dict =>
          \A i \in DOMAIN Items :
              Items[i].dict => evaluate_single_question(Items[i], SubmittedFor(i)).exc = ""
    /\ \A i \in DOMAIN Items :
          UnknownType(Items[i]) =>
              \A a \in AnswerPool \cup {None} :
                  IsErrorResult(evaluate_single_question(Items[i], a))
    /\ Graded =>
          \A i \in DOMAIN Items :
              UnknownType(Items[i]) => IsErrorResult(evaluation.detailed_results[i])

\* a question of unknown type was answered and the evaluation lists its
\* error result
C4_Witness ==
    /\ Graded
    /\ \E i \in DOMAIN Items :
          /\ UnknownType(Items[i])
          /\ SubmittedFor(i) # None
          /\ evaluation.detailed_results[i].error = "Unknown question type"

\* the sum of points_earned over a list of results
RECURSIVE SumEarned(_)
SumEarned(results) ==
    IF results = <<>> THEN 0
    ELSE Head(results).points_earned.n + SumEarned(Tail(results))

\* five ten-point questions, three of them answered correctly, no scoring
\* policy
ThreeOfFive ==
    /\ Len(Items) = 5
    /\ \A i \in DOMAIN Items : Items[i].dict /\ Items[i].points = PyInt(10)
    /\ quiz_data.scoring.t = "absent"
    /\ evaluation.score_summary.correct_answers = 3

\* C5: in a normal evaluation total_points is the sum of points_earned over
\* detailed_results, correct_answers the number of correct results,
\* max_points the scoring policy's total_points or 10 per question without
\* one, passing_score the policy's passing_score or 0.6 * max_points,
\* percentage 100 * total_points / max_points (0 when max_points is 0),
\* passed holds iff total_points >= passing_score; 3 right of 5 ten-point
\* questions give 30 points, 60.0 percent, passed, grade D.
C5_ScoreSummary ==
    Graded =>
        LET s == evaluation.score_summary
            results == evaluation.detailed_results
            scoring == quiz_data.scoring
            max == IF scoring.total_points.t = "absent" THEN 10 * Len(Items)
                   ELSE scoring.total_points.n
            pnum == IF scoring.passing_score.t = "absent" THEN 6 * max
                    ELSE scoring.passing_score.n
            pden == IF scoring.passing_score.t = "absent" THEN 10 ELSE 1
        IN /\ s.total_points = SumEarned(results)
           /\ s.correct_answers = Cardinality({i \in DOMAIN results : results[i].is_correct})
           /\ s.max_points = max
           /\ locals.passing_score.num * pden = pnum * locals.passing_score.den
           /\ IF max = 0 THEN locals.percentage_score.num = 0
              ELSE locals.percentage_score.num * max
                       = 100 * s.total_points * locals.percentage_score.den
           /\ s.passed <=> (s.total_points * pden >= pnum)
           /\ ThreeOfFive =>
                  /\ s.total_points = 30
                  /\ s.percentage_score = 6000
                  /\ s.passed
                  /\ s.grade = "D"

\* the evaluation of three right answers out of five
C5_Witness ==
    /\ Graded
    /\ ThreeOfFive
    /\ evaluation.score_summary.total_points = 30
    /\ evaluation.score_summary.max_points = 50

\* C6: every question result whose max_points is a number has
\* 0 <= points_earned <= max_points.
C6_PointsWithinBounds ==
    Graded =>
        \A i \in DOMAIN evaluation.detailed_results :
            LET r == evaluation.detailed_results[i]
            IN IsNumber(r.max_points) =>
                   /\ 0 <= r.points_earned.n
                   /\ r.points_earned.n <= r.max_points.n

\* the fill_in_blank questions of the document that are well-formed, with a
\* text or nothing submitted
BlankQuestions ==
    {i \in DOMAIN Items :
        /\ TypeIs(Items[i], "fill_in_blank")
        /\ Get(Items[i].correct_answer, PyStr(<<>>)).t = "str"
        /\ NumericPoints(Items[i])
        /\ TextOrMissing(SubmittedFor(i))}

\* C7: a fill_in_blank answer that equals the key after trimming and
\* lowercasing both (a missing or empty submission being the empty string)
\* is correct and earns max_points; otherwise one with a similarity ratio of
\* at least 0.7 is correct and earns floor(max_points * 0.8); otherwise it
\* is incorrect and earns 0.
C7_FillInBlank ==
    Graded =>
        \A i \in BlankQuestions :
            LET r == evaluation.detailed_results[i]
                max == PointsOf(Items[i])
                key == Lower(Strip(Get(Items[i].correct_answer, PyStr(<<>>)).s))
                given == Normalised(SubmittedFor(i))
                ratio == SimilarityRatio(given, key)
                earned == r.points_earned.n
            IN IF given = key THEN r.is_correct /\ earned = max
               ELSE IF 10 * ratio.num >= 7 * ratio.den
               THEN /\ r.is_correct
                    /\ 10 * earned <= 8 * max
                    /\ 8 * max < 10 * (earned + 1)
               ELSE ~r.is_correct /\ earned = 0

\* "Pari" for "Paris" on a seven-point question earned floor(5.6) = 5 points
C7_Witness ==
    /\ Graded
    /\ \E i \in BlankQuestions :
          /\ Items[i].points = PyInt(7)
          /\ Items[i].correct_answer = PyStr(Paris)
          /\ SubmittedFor(i) = PyStr(<<"P", "a", "r", "i">>)
          /\ evaluation.detailed_results[i].is_correct
          /\ evaluation.detailed_results[i].points_earned = PyInt(5)

\* the short_answer questions of the document that are well-formed, with a
\* text or nothing submitted
ShortQuestions ==
    {i \in DOMAIN Items :
        /\ TypeIs(Items[i], "short_answer")
        /\ Get(Items[i].sample_answer, PyStr(<<>>)).t = "str"
        /\ NumericPoints(Items[i])
        /\ TextOrMissing(SubmittedFor(i))}

\* the sample answer of question i, trimmed and lowercased
SampleOf(i) == Lower(Strip(Get(Items[i].sample_answer, PyStr(<<>>)).s))

\* the numerator and the denominator of 0.6 * similarity + 0.4 * term_score
\* for the text given in answer to question i
CombinedOf(i, given) ==
    LET ratio == SimilarityRatio(given, SampleOf(i))
        terms == extract_key_terms(SampleOf(i))
        hits == Cardinality({term \in terms : IsSubstring(term, given)})
        n == IF terms = {} THEN 1 ELSE Cardinality(terms)
    IN [num |-> 6 * ratio.num * n + 4 * hits * ratio.den, den |-> 10 * ratio.den * n]

BinaryQuestions ==
    {i \in DOMAIN Items :
        /\ TypeIs(Items[i], "multiple_choice") \/ TypeIs(Items[i], "true_false")
        /\ NumericPoints(Items[i])}

\* the answer key of a binary question: index 0 and true when it names none
KeyOf(q) ==
    Get(q.correct_answer, IF TypeIs(q, "true_false") THEN PyBool(TRUE) ELSE PyInt(0))

\* C9: a multiple_choice or true_false result is correct with points_earned =
\* max_points exactly when the submitted value equals the correct_answer of
\* the question, and incorrect with 0 points for any other value and for no
\* answer.
C9_BinaryGrading ==
    Graded =>
        \A i \in BinaryQuestions :
            LET r == evaluation.detailed_results[i]
                given == SubmittedFor(i)
                key == KeyOf(Items[i])
                equal == \/ given.t \in {"int", "bool"} /\ key.t \in {"int", "bool"}
                            /\ given.n = key.n
                         \/ given.t = "str" /\ key.t = "str" /\ given.s = key.s
            IN IF equal THEN r.is_correct /\ r.points_earned.n = PointsOf(Items[i])
               ELSE ~r.is_correct /\ r.points_earned.n = 0

\* a five-point true_false question was answered right and earned five
C9_Witness ==
    /\ Graded
    /\ \E i \in BinaryQuestions :
          /\ TypeIs(Items[i], "true_false")
          /\ Items[i].points = PyInt(5)
          /\ SubmittedFor(i) = PyBool(TRUE)
          /\ evaluation.detailed_results[i].is_correct
          /\ evaluation.detailed_results[i].points_earned = PyInt(5)

\* C10: the grade of a normal evaluation is A from 90 percent, B from 80,
\* C from 70, D from 60, and F below.
C10_GradeFromPercentage ==
    Graded =>
        LET p == locals.percentage_score
            grade == evaluation.score_summary.grade
        IN /\ (p.num >= 90 * p.den) <=> (grade = "A")
           /\ (p.num >= 80 * p.den /\ p.num < 90 * p.den) <=> (grade = "B")
           /\ (p.num >= 70 * p.den /\ p.num < 80 * p.den) <=> (grade = "C")
           /\ (p.num >= 60 * p.den /\ p.num < 70 * p.den) <=> (grade = "D")
           /\ (p.num < 60 * p.den) <=> (grade = "F")

\* an evaluation of exactly 80 percent got B
C10_Witness ==
    /\ Graded
    /\ locals.percentage_score.num = 80 * locals.percentage_score.den
    /\ evaluation.score_summary.grade = "B"

\* generate_quiz_from_content has returned
Generated == pc = "generated"

\* C11: when the request names the one type short_answer, the quiz returned
\* for a lesson text (the empty text too) has exactly num_questions
\* questions, all of type short_answer, and no except clause ran.
C11_ShortAnswerNeverSkipped ==
    ( /\ Generated
      /\ request.question_types = TypeList(<<"short_answer">>)
      /\ request.lesson_content.t = "str" ) =>
        /\ Len(quiz.questions) = request.num_questions
        /\ \A i \in DOMAIN quiz.questions : quiz.questions[i].type = Name("short_answer")
        /\ gen_caught = {}

\* three short_answer questions were returned for the empty lesson text
C11_Witness ==
    /\ Generated
    /\ request.question_types = TypeList(<<"short_answer">>)
    /\ request.lesson_content = PyStr(<<>>)
    /\ request.num_questions = 3
    /\ Len(quiz.questions) = 3
    /\ quiz.questions[3].type = Name("short_answer")

\* C12: the question identifiers of every quiz returned are pairwise
\* distinct, on the normal path, with skipped slots, and on both fallback
\* paths.
C12_DistinctIdentifiers ==
    Generated =>
        \A i, j \in DOMAIN quiz.questions :
            i # j => quiz.questions[i].question_id # quiz.questions[j].question_id

\* a quiz whose second slot was skipped holds q_1 and q_3
C12_Witness ==
    /\ Generated
    /\ gen_caught = {}
    /\ request.num_questions = 3
    /\ Len(quiz.questions) = 2
    /\ quiz.questions[1].question_id = Name("q_1")
    /\ quiz.questions[2].question_id = Name("q_3")

\* C13: when the request names the one type multiple_choice, every slot of
\* the quiz returned for a lesson text holds a question (the strategy never
\* returns a null result), each question of type multiple_choice with four
\* options and correct_answer index 0, and the generic question about the
\* topic when the text has no key concept.
C13_MultipleChoiceNeverNull ==
    ( /\ Generated
      /\ request.question_types = TypeList(<<"multiple_choice">>)
      /\ request.lesson_content.t = "str" ) =>
        /\ Len(quiz.questions) = request.num_questions
        /\ \A i \in DOMAIN quiz.questions :
              /\ quiz.questions[i].type = Name("multiple_choice")
              /\ Len(quiz.questions[i].options) = 4
              /\ quiz.questions[i].correct_answer = PyInt(0)
              /\ extract_key_concepts(request.lesson_content) = {{}} =>
                    quiz.questions[i].question
                        = <<"Which statement best describes ">> \o request.topic \o <<"?">>

\* C14: every quiz returned, built normally or by a fallback, has
\* scoring.total_points = 10 * (its number of questions),
\* scoring.passing_score = 6 * (its number of questions), total_questions
\* equal to that number, every question worth 10 points, and at most
\* num_questions questions.
C14_ScoringFollowsQuestionCount ==
    Generated =>
        /\ quiz.scoring.total_points = 10 * Len(quiz.questions)
        /\ quiz.scoring.passing_score = 6 * Len(quiz.questions)
        /\ quiz.total_questions = Len(quiz.questions)
        /\ \A i \in DOMAIN quiz.questions : quiz.questions[i].points = PyInt(10)
        /\ Len(quiz.questions) <= request.num_questions

\* the fallback quiz was returned for three questions, with 30 points
C14_Witness ==
    /\ Generated
    /\ "quiz" \in gen_caught
    /\ request.num_questions = 3
    /\ Len(quiz.questions) = 3
    /\ quiz.scoring.total_points = 30
    /\ quiz.scoring.passing_score = 18

\* C16: for every evaluation of a quiz that supplies no scoring policy, the
\* quiz with zero questions included, score_summary.passed is true exactly
\* when score_summary.grade is not F.
C16_PassedIffNotF ==
    (Graded /\ quiz_data.scoring = NoScoring) =>
        (evaluation.score_summary.passed <=> evaluation.score_summary.grade # "F")

\* a quiz of at least one question was generated, submitted and evaluated
RoundTrip == pc = "done" /\ quiz # NoQuiz /\ Len(quiz.questions) >= 1

\* C15: for a generated quiz of at least one question, the submission of
\* every question's own correct_answer (sample_answer for short_answer)
\* makes every result correct with full points, total_points = max_points,
\* percentage 100, passed and grade A; the submission of no answers makes
\* every result incorrect and total_points 0.
C15_GenerateThenGrade ==
    RoundTrip =>
        /\ evaluation.kind = "ok"
        /\ user_answers = OwnAnswers(quiz) =>
              /\ \A i \in DOMAIN evaluation.detailed_results :
                    /\ evaluation.detailed_results[i].is_correct
                    /\ evaluation.detailed_results[i].points_earned = PyInt(10)
              /\ evaluation.score_summary.total_points = evaluation.score_summary.max_points
              /\ evaluation.score_summary.percentage_score = 10000
              /\ evaluation.score_summary.passed
              /\ evaluation.score_summary.grade = "A"
        /\ user_answers = NoAnswers =>
              /\ \A i \in DOMAIN evaluation.detailed_results :
                    ~evaluation.detailed_results[i].is_correct
              /\ evaluation.score_summary.total_points = 0

====
